---- MODULE Spec2Model ----
(***************************************************************************)
(* AACS broadcast encryption (complete-subtree cover) of src/src/aacs:     *)
(* the key tree (tree.py), the padding and the cipher interface            *)
(* (encryption.py) and the AACS engine with revoke / encrypt / decrypt     *)
(* (__init__.py).                                                          *)
(*                                                                         *)
(* Bytes.  A plaintext byte is an integer: 0..255 for message, tag and     *)
(* padding bytes; the j-th byte of the random draw number r of             *)
(* os.urandom(16) is the symbolic value 256 + 16*r + (j-1), so that two    *)
(* different draws never share a byte (keys are independently random).     *)
(* A byte of a stream is a record: a literal byte ("raw"), a byte of a     *)
(* random IV ("iv") or a byte of an AES-CBC ciphertext ("ct") that         *)
(* remembers the key, the IV and the plaintext byte it was made from.      *)
(* The cipher is ideal: a ciphertext byte decrypts to its plaintext byte   *)
(* under the same key and IV only, and to Garbage otherwise.               *)
(***************************************************************************)
EXTENDS Integers, Sequences, FiniteSets, TLC

\* ---------------------------------------------------------------- bounds
MaxN == 3
MaxRevoke == 2
MaxMsgLen == 17
MaxSeed == 1
MaxTreeN == 9
MaxPadLen == 33
MaxWalk == 8

\* ------------------------------------------------------------- constants
KEY_BYTES == 16
BLOCK_BYTES == 16
ENCRYPTED_KEY_SIZE == 48
IV_SIZE == 16
Garbage == 999

TAG_VALID == <<105, 115, 95, 118, 97, 108, 105, 100, 95, 97, 97, 99, 115, 107, 101, 121>>
TAG_SEPARATOR == <<69, 78, 68, 95, 79, 70, 95, 75, 69, 89, 83>>

\* --------------------------------------------------------- byte sequences
Min2(a, b) == IF a < b THEN a ELSE b
Max2(a, b) == IF a > b THEN a ELSE b

\* s[:k]
Take(s, k) == SubSeq(s, 1, Min2(k, Len(s)))
\* s[k:]
Drop(s, k) == SubSeq(s, Min2(k, Len(s)) + 1, Len(s))

RawByte(b) == [kind |-> "raw", key |-> 0, nonce |-> 0, i |-> 0, v |-> b]
IvByte(r, j) == [kind |-> "iv", key |-> 0, nonce |-> r, i |-> j, v |-> 0]
CtByte(kid, r, j, p) == [kind |-> "ct", key |-> kid, nonce |-> r, i |-> j, v |-> p]

Raw(s) == [j \in 1..Len(s) |-> RawByte(s[j])]

\* bytes.startswith on a stream, against a literal tag
StreamStartsWith(c, tag) == Len(c) >= Len(tag) /\ Take(c, Len(tag)) = Raw(tag)
\* bytes.startswith on a plaintext
StartsWith(p, tag) == Len(p) >= Len(tag) /\ Take(p, Len(tag)) = tag

\* ------------------------------------------------------------ encryption
\* os.urandom(16), draw number r
get_random_key(r) == [j \in 1..KEY_BYTES |-> 256 + 16 * r + (j - 1)]

\* the draw a 16-byte key came from; -1 for bytes that are no drawn key
KeyId(key) ==
    IF Len(key) = KEY_BYTES /\ key[1] >= 256 /\ key = get_random_key((key[1] - 256) \div 16)
    THEN (key[1] - 256) \div 16
    ELSE -1

\* mutant of add_padding: the padding bytes hold p, not p - 1
add_padding_value_p(m) ==
    LET l == Len(m)
        p == BLOCK_BYTES - (l % BLOCK_BYTES)
    IN  m \o [j \in 1..p |-> p]

add_padding(m) ==
    LET l == Len(m)
        p == BLOCK_BYTES - (l % BLOCK_BYTES)
        v == p - 1
    IN  m \o [j \in 1..p |-> v]

\* m[-1] raises IndexError on the empty string
remove_padding(m) ==
    IF Len(m) = 0
    THEN [err |-> "IndexError", m |-> <<>>]
    ELSE LET v == m[Len(m)]
             p == v + 1
         IN  [err |-> "none",
              m |-> IF p <= 0 THEN <<>> ELSE SubSeq(m, 1, Max2(Len(m) - p, 0))]

\* the IV of draw r, and the draw a 16-byte IV came from (-1 for other bytes)
RandomIv(r) == [j \in 1..IV_SIZE |-> IvByte(r, j)]
IvId(iv) ==
    IF Len(iv) = IV_SIZE /\ iv[1].kind = "iv" /\ iv = RandomIv(iv[1].nonce)
    THEN iv[1].nonce
    ELSE -1

\* (iv, ciphertext) with the IV of draw r, joined as the callers join them
AES_encrypt(key, plaintext, r) ==
    LET kid == KeyId(key)
    IN  RandomIv(r) \o [j \in 1..Len(plaintext) |-> CtByte(kid, r, j, plaintext[j])]

\* ValueError of the library: key or IV of the wrong size, or a ciphertext
\* that is not a whole number of blocks
AES_decrypt(key, iv, ciphertext) ==
    IF Len(key) # KEY_BYTES \/ Len(iv) # IV_SIZE \/ Len(ciphertext) % BLOCK_BYTES # 0
    THEN [err |-> TRUE, p |-> <<>>]
    ELSE LET kid == KeyId(key)
             ivid == IvId(iv)
         IN  [err |-> FALSE,
              p |-> [j \in 1..Len(ciphertext) |->
                        LET b == ciphertext[j] IN
                        IF /\ kid # -1
                           /\ ivid # -1
                           /\ b.kind = "ct"
                           /\ b.key = kid
                           /\ b.nonce = ivid
                           /\ b.i = j
                        THEN b.v
                        ELSE Garbage]]

\* ------------------------------------------------------------------ tree
RECURSIVE Pow2(_)
Pow2(e) == IF e = 0 THEN 1 ELSE 2 * Pow2(e - 1)

\* ceil(log2(n)) for n >= 1
RECURSIVE CeilLog2From(_, _)
CeilLog2From(n, e) == IF Pow2(e) >= n THEN e ELSE CeilLog2From(n, e + 1)
CeilLog2(n) == CeilLog2From(n, 0)

tree_t(n) == CeilLog2(n)
depth(n) == tree_t(n) + 1
first_leaf(n) == Pow2(tree_t(n))
\* mutant of last_leaf: 2**(t+1) without the - 1
last_leaf_one_more(n) == Pow2(tree_t(n) + 1)

last_leaf(n) == Pow2(tree_t(n) + 1) - 1

\* mutant of get_parent: the half is rounded up
get_parent_rounded_up(node_id) == (node_id + 1) \div 2

get_parent(node_id) == node_id \div 2
get_sibling(node_id) == IF node_id % 2 # 0 THEN node_id - 1 ELSE node_id + 1
get_leaves(n) == [j \in 1..(last_leaf(n) - first_leaf(n) + 1) |-> first_leaf(n) + j - 1]

\* defined for node_id >= 1 (the loop of the source does not end below 1)
RECURSIVE get_path_to_root(_)
get_path_to_root(node_id) ==
    IF node_id = 1 THEN <<1>> ELSE <<node_id>> \o get_path_to_root(get_parent(node_id))

SeqToSet(s) == {s[j] : j \in 1..Len(s)}

\* tuple(sorted(set))
RECURSIVE sorted(_)
sorted(set) ==
    IF set = {} THEN <<>>
    ELSE LET lo == CHOOSE x \in set : \A y \in set : x <= y
         IN  <<lo>> \o sorted(set \ {lo})

\* ------------------------------------------------------------ the engine
VARIABLES
    n,          \* BinaryTree.n
    nodes,      \* BinaryTree.nodes: node id -> key
    S,          \* AACS.S: devices not yet compromised
    T,          \* AACS.T: revoked devices
    S_cover,    \* AACS.S_cover
    stream,     \* the bytes returned by the latest encrypt call
    enc,        \* the latest encrypt call: its message, key draw, and S, T, S_cover when it ran
    op,         \* the latest call: "init", "revoke", "encrypt" or "decrypt"
    id,         \* its id argument (revoke: id, decrypt: node_id)
    ret,        \* the value a revoke call returned
    cut,        \* a decrypt call was given the first cut bytes of stream
    res,        \* the outcome of a decrypt call
    nrev,       \* number of revoke calls that returned True
    call        \* a call of a helper or of decrypt followed step by step (SpecFn, SpecScan)

vars == <<n, nodes, S, T, S_cover, stream, enc, op, id, ret, cut, res, nrev, call>>

\* AACS.__get_S_cover
CoverSiblings(revoked) ==
    {get_sibling(j) : j \in UNION {SeqToSet(get_path_to_root(i)) \ {1} : i \in revoked}}

get_S_cover(valid, revoked, leafCount) ==
    IF Cardinality(valid) = leafCount
    THEN <<1>>
    ELSE sorted(CoverSiblings(revoked))

\* mutant of get_known_keys: the walk stops below the root
get_known_keys_without_root(keyTable, node_id) ==
    LET path == get_path_to_root(node_id)
    IN  [j \in 1..(Len(path) - 1) |-> keyTable[path[j]]]

\* AACS.__get_known_keys
get_known_keys(keyTable, node_id) ==
    LET path == get_path_to_root(node_id)
    IN  [j \in 1..Len(path) |-> keyTable[path[j]]]

\* AACS.encrypt: the key blocks, one AES_encrypt call (IV draw r + i) per cover node
RECURSIVE encrypted_keys(_, _, _, _, _)
encrypted_keys(keyTable, cover, k, r, i) ==
    IF i > Len(cover) THEN <<>>
    ELSE AES_encrypt(keyTable[cover[i]], TAG_VALID \o k, r + i)
            \o encrypted_keys(keyTable, cover, k, r, i + 1)

\* mutant of encrypt_bytes: the key blocks follow the cover in descending order
Reverse(q) == [j \in 1..Len(q) |-> q[Len(q) + 1 - j]]
encrypt_bytes_descending(keyTable, cover, m, r) ==
    LET k == get_random_key(r)
        c == AES_encrypt(k, add_padding(m), r + Len(cover) + 1)
    IN  encrypted_keys(keyTable, Reverse(cover), k, r, 1) \o Raw(TAG_SEPARATOR) \o c

\* AACS.encrypt: r numbers the random draws of this call
encrypt_bytes(keyTable, cover, m, r) ==
    LET k == get_random_key(r)
        c == AES_encrypt(k, add_padding(m), r + Len(cover) + 1)
    IN  encrypted_keys(keyTable, cover, k, r, 1) \o Raw(TAG_SEPARATOR) \o c

\* AACS.decrypt, the loop over the known keys for one key block c_u:
\* found, the content key, the number of trial decryptions, a library error
RECURSIVE try_keys(_, _, _)
try_keys(known, c_u, j) ==
    IF j > Len(known)
    THEN [found |-> FALSE, k |-> <<>>, tried |-> j - 1, err |-> FALSE]
    ELSE LET d == AES_decrypt(known[j], Take(c_u, IV_SIZE), Drop(c_u, IV_SIZE))
         IN  IF d.err
             THEN [found |-> FALSE, k |-> <<>>, tried |-> j, err |-> TRUE]
             ELSE IF StartsWith(d.p, TAG_VALID)
             THEN [found |-> TRUE, k |-> Drop(d.p, Len(TAG_VALID)), tried |-> j, err |-> FALSE]
             ELSE try_keys(known, c_u, j + 1)

\* mutant of scan: every block before the separator is trial-decrypted,
\* also after the key was found
RECURSIVE scan_keeps_trying(_, _, _, _, _, _)
scan_keeps_trying(known, c, off, keep_searching, k, att) ==
    IF c = <<>>
    THEN [separator_found |-> FALSE, keep_searching |-> keep_searching, k |-> k,
          c |-> c, off |-> off, att |-> att, err |-> FALSE]
    ELSE IF StreamStartsWith(c, TAG_SEPARATOR)
    THEN [separator_found |-> TRUE, keep_searching |-> keep_searching, k |-> k,
          c |-> c, off |-> off, att |-> att, err |-> FALSE]
    ELSE LET t == try_keys(known, Take(c, ENCRYPTED_KEY_SIZE), 1)
             att2 == Append(att, <<off, t.tried>>)
         IN  IF t.err
             THEN [separator_found |-> FALSE, keep_searching |-> TRUE, k |-> <<>>,
                   c |-> c, off |-> off, att |-> att2, err |-> TRUE]
             ELSE scan_keeps_trying(known, Drop(c, ENCRYPTED_KEY_SIZE),
                                    off + ENCRYPTED_KEY_SIZE,
                                    keep_searching /\ ~t.found,
                                    IF t.found THEN t.k ELSE k, att2)

\* mutant of scan: the separator is tested after the trial decryptions of the block
RECURSIVE scan_trial_first(_, _, _, _, _, _)
scan_trial_first(known, c, off, keep_searching, k, att) ==
    IF c = <<>>
    THEN [separator_found |-> FALSE, keep_searching |-> keep_searching, k |-> k,
          c |-> c, off |-> off, att |-> att, err |-> FALSE]
    ELSE LET t == IF keep_searching
                  THEN try_keys(known, Take(c, ENCRYPTED_KEY_SIZE), 1)
                  ELSE [found |-> FALSE, k |-> <<>>, tried |-> 0, err |-> FALSE]
             att2 == IF keep_searching THEN Append(att, <<off, t.tried>>) ELSE att
         IN  IF t.err
             THEN [separator_found |-> FALSE, keep_searching |-> TRUE, k |-> <<>>,
                   c |-> c, off |-> off, att |-> att2, err |-> TRUE]
             ELSE IF StreamStartsWith(c, TAG_SEPARATOR)
             THEN [separator_found |-> TRUE, keep_searching |-> keep_searching /\ ~t.found,
                   k |-> IF t.found THEN t.k ELSE k,
                   c |-> c, off |-> off, att |-> att2, err |-> FALSE]
             ELSE scan_trial_first(known, Drop(c, ENCRYPTED_KEY_SIZE),
                                   off + ENCRYPTED_KEY_SIZE,
                                   keep_searching /\ ~t.found,
                                   IF t.found THEN t.k ELSE k, att2)

\* AACS.decrypt, the while loop: c is the input left, off the bytes dropped
\* so far, att the offsets and numbers of the trial decryptions made so far
RECURSIVE scan(_, _, _, _, _, _)
scan(known, c, off, keep_searching, k, att) ==
    IF c = <<>>
    THEN [separator_found |-> FALSE, keep_searching |-> keep_searching, k |-> k,
          c |-> c, off |-> off, att |-> att, err |-> FALSE]
    ELSE IF StreamStartsWith(c, TAG_SEPARATOR)
    THEN [separator_found |-> TRUE, keep_searching |-> keep_searching, k |-> k,
          c |-> c, off |-> off, att |-> att, err |-> FALSE]
    ELSE IF keep_searching
    THEN LET t == try_keys(known, Take(c, ENCRYPTED_KEY_SIZE), 1)
             att2 == Append(att, <<off, t.tried>>)
         IN  IF t.err
             THEN [separator_found |-> FALSE, keep_searching |-> TRUE, k |-> <<>>,
                   c |-> c, off |-> off, att |-> att2, err |-> TRUE]
             ELSE scan(known, Drop(c, ENCRYPTED_KEY_SIZE), off + ENCRYPTED_KEY_SIZE,
                       ~t.found, IF t.found THEN t.k ELSE k, att2)
    ELSE scan(known, Drop(c, ENCRYPTED_KEY_SIZE), off + ENCRYPTED_KEY_SIZE,
              keep_searching, k, att)

\* mutant of decrypt_result: the separator is tested before the key
decrypt_result_separator_first(keyTable, node_id, c) ==
    LET sc == scan(get_known_keys(keyTable, node_id), c, 0, TRUE, <<>>, <<>>)
        body == Drop(sc.c, Len(TAG_SEPARATOR))
        d == AES_decrypt(sc.k, Take(body, 16), Drop(body, 16))
        u == remove_padding(d.p)
        out(status, m) ==
            [status |-> status, m |-> m, separator_found |-> sc.separator_found,
             key_found |-> ~sc.keep_searching, k |-> sc.k, off |-> sc.off, att |-> sc.att]
    IN  IF sc.err THEN out("ValueError", <<>>)
        ELSE IF ~sc.separator_found THEN out("SeparatorNotFound", <<>>)
        ELSE IF sc.keep_searching THEN out("KeyNotFound", <<>>)
        ELSE IF d.err THEN out("ValueError", <<>>)
        ELSE IF u.err # "none" THEN out(u.err, <<>>)
        ELSE out("ok", u.m)

\* AACS.decrypt: what the call raises or returns
decrypt_result(keyTable, node_id, c) ==
    LET sc == scan(get_known_keys(keyTable, node_id), c, 0, TRUE, <<>>, <<>>)
        body == Drop(sc.c, Len(TAG_SEPARATOR))
        d == AES_decrypt(sc.k, Take(body, 16), Drop(body, 16))
        u == remove_padding(d.p)
        out(status, m) ==
            [status |-> status, m |-> m, separator_found |-> sc.separator_found,
             key_found |-> ~sc.keep_searching, k |-> sc.k, off |-> sc.off, att |-> sc.att]
    IN  IF sc.err THEN out("ValueError", <<>>)
        ELSE IF sc.keep_searching THEN out("KeyNotFound", <<>>)
        ELSE IF ~sc.separator_found THEN out("SeparatorNotFound", <<>>)
        ELSE IF d.err THEN out("ValueError", <<>>)
        ELSE IF u.err # "none" THEN out(u.err, <<>>)
        ELSE out("ok", u.m)

\* ---------------------------------------------------------------- inputs
Sizes == 1..MaxN
\* revoke arguments: every node id of the tree, 0 and the first id past the tree
RevokeIds == 0..(last_leaf(n) + 1)
\* messages: the empty one and the longest one (more than a block)
MsgLens == {0, MaxMsgLen}
Msgs == {[j \in 1..l |-> (j * 7) % 256] : l \in MsgLens}
\* the random draws of an encrypt call start at 100, 200, ...
Seeds == {100 * s : s \in 1..MaxSeed}
\* what a decrypt call is given: the stream, or a prefix of it
Cuts == {p \in {0, 20} : p <= Len(stream)} \cup {Len(stream)}
          \cup (IF enc.called
                THEN {Len(enc.cover) * ENCRYPTED_KEY_SIZE,
                      Len(enc.cover) * ENCRYPTED_KEY_SIZE + Len(TAG_SEPARATOR) + IV_SIZE}
                ELSE {})
\* the devices that decrypt: every leaf, and the root
DecryptIds == SeqToSet(get_leaves(n)) \cup {1}

NoEnc == [called |-> FALSE, m |-> <<>>, r |-> 0, cover |-> <<>>, S |-> {}, T |-> {}]
\* no helper call is being followed
NoCall == [f |-> "none"]
NoRes == [status |-> "none", m |-> <<>>, separator_found |-> FALSE, key_found |-> FALSE,
          k |-> <<>>, off |-> 0, att |-> <<>>]

\* the bytes the latest decrypt call was given
c_in == Take(stream, cut)

\* --------------------------------------------------------------- actions
\* BinaryTree.__init__ and AACS.__init__: node i holds the key of draw i
Init ==
    /\ n \in Sizes
    /\ nodes = [i \in 1..last_leaf(n) |-> get_random_key(i)]
    /\ S = SeqToSet(get_leaves(n))
    /\ T = {}
    /\ S_cover = get_S_cover(SeqToSet(get_leaves(n)), {}, n)
    /\ stream = <<>>
    /\ enc = NoEnc
    /\ op = "init"
    /\ id = 0
    /\ ret = FALSE
    /\ cut = 0
    /\ res = NoRes
    /\ nrev = 0
    /\ call = NoCall

\* mutant of revoke: the id is added to T but not discarded from S
revoke_keeps_valid(x) ==
    /\ x \in S => nrev < MaxRevoke
    /\ IF x \in S
       THEN /\ S' = S
            /\ T' = T \cup {x}
            /\ S_cover' = get_S_cover(S, T \cup {x}, n)
            /\ ret' = TRUE
            /\ nrev' = nrev + 1
       ELSE /\ ret' = FALSE
            /\ UNCHANGED <<S, T, S_cover, nrev>>
    /\ op' = "revoke"
    /\ id' = x
    /\ cut' = 0
    /\ res' = NoRes
    /\ UNCHANGED <<n, nodes, stream, enc, call>>

\* mutant of revoke: the revoked node gets a new key
revoke_rekeys(x) ==
    /\ x \in S => nrev < MaxRevoke
    /\ IF x \in S
       THEN /\ S' = S \ {x}
            /\ T' = T \cup {x}
            /\ S_cover' = get_S_cover(S \ {x}, T \cup {x}, n)
            /\ ret' = TRUE
            /\ nrev' = nrev + 1
            /\ nodes' = [nodes EXCEPT ![x] = get_random_key(50 + x)]
       ELSE /\ ret' = FALSE
            /\ UNCHANGED <<S, T, S_cover, nrev, nodes>>
    /\ op' = "revoke"
    /\ id' = x
    /\ cut' = 0
    /\ res' = NoRes
    /\ UNCHANGED <<n, stream, enc, call>>

\* mutant of revoke: T.add(id) runs whether or not id is in S
revoke_adds_always(x) ==
    /\ x \in S => nrev < MaxRevoke
    /\ IF x \in S
       THEN /\ S' = S \ {x}
            /\ T' = T \cup {x}
            /\ S_cover' = get_S_cover(S \ {x}, T \cup {x}, n)
            /\ ret' = TRUE
            /\ nrev' = nrev + 1
       ELSE /\ ret' = FALSE
            /\ T' = T \cup {x}
            /\ UNCHANGED <<S, S_cover, nrev>>
    /\ op' = "revoke"
    /\ id' = x
    /\ cut' = 0
    /\ res' = NoRes
    /\ UNCHANGED <<n, nodes, stream, enc, call>>

\* mutant of revoke: the cover is computed before S and T are updated
revoke_stale_cover(x) ==
    /\ x \in S => nrev < MaxRevoke
    /\ IF x \in S
       THEN /\ S' = S \ {x}
            /\ T' = T \cup {x}
            /\ S_cover' = get_S_cover(S, T, n)
            /\ ret' = TRUE
            /\ nrev' = nrev + 1
       ELSE /\ ret' = FALSE
            /\ UNCHANGED <<S, T, S_cover, nrev>>
    /\ op' = "revoke"
    /\ id' = x
    /\ cut' = 0
    /\ res' = NoRes
    /\ UNCHANGED <<n, nodes, stream, enc, call>>

\* AACS.revoke
revoke(x) ==
    /\ x \in S => nrev < MaxRevoke
    /\ IF x \in S
       THEN /\ S' = S \ {x}
            /\ T' = T \cup {x}
            /\ S_cover' = get_S_cover(S \ {x}, T \cup {x}, n)
            /\ ret' = TRUE
            /\ nrev' = nrev + 1
       ELSE /\ ret' = FALSE
            /\ UNCHANGED <<S, T, S_cover, nrev>>
    /\ op' = "revoke"
    /\ id' = x
    /\ cut' = 0
    /\ res' = NoRes
    /\ UNCHANGED <<n, nodes, stream, enc, call>>

\* AACS.encrypt
encrypt(m, r) ==
    /\ stream' = encrypt_bytes(nodes, S_cover, m, r)
    /\ enc' = [called |-> TRUE, m |-> m, r |-> r, cover |-> S_cover, S |-> S, T |-> T]
    /\ op' = "encrypt"
    /\ id' = 0
    /\ ret' = FALSE
    /\ cut' = 0
    /\ res' = NoRes
    /\ UNCHANGED <<n, nodes, S, T, S_cover, nrev, call>>

\* mutant of decrypt: a device that is revoked now is refused
decrypt_refuses_revoked(node_id, p) ==
    /\ res' = IF node_id \in T
              THEN [NoRes EXCEPT !.status = "KeyNotFound"]
              ELSE decrypt_result(nodes, node_id, Take(stream, p))
    /\ cut' = p
    /\ op' = "decrypt"
    /\ id' = node_id
    /\ ret' = FALSE
    /\ UNCHANGED <<n, nodes, S, T, S_cover, stream, enc, nrev, call>>

\* AACS.decrypt
decrypt(node_id, p) ==
    /\ res' = decrypt_result(nodes, node_id, Take(stream, p))
    /\ cut' = p
    /\ op' = "decrypt"
    /\ id' = node_id
    /\ ret' = FALSE
    /\ UNCHANGED <<n, nodes, S, T, S_cover, stream, enc, nrev, call>>

Next ==
    \/ \E x \in RevokeIds : revoke(x)
    \/ \E m \in Msgs, r \in Seeds : encrypt(m, r)
    \/ \E node_id \in DecryptIds, p \in Cuts : decrypt(node_id, p)

Spec == Init /\ [][Next]_vars

\* ---------------------------------------------------------------- claims
Leaves == SeqToSet(get_leaves(n))
Path(d) == SeqToSet(get_path_to_root(d))
\* u is d or an ancestor of d
AncestorOrSelf(u, d) == u \in Path(d)
\* the leaves below (or equal to) node u
LeafDescendants(u) == {d \in Leaves : AncestorOrSelf(u, d)}
CoveredLeaves(cover) == UNION {LeafDescendants(cover[i]) : i \in 1..Len(cover)}

\* the latest call is a decrypt of the whole stream of an earlier encrypt call
DecryptedWholeStream == op = "decrypt" /\ enc.called /\ cut = Len(stream)

\* C1 Revocation exclusion: a leaf that was revoked before the encrypt call
\* cannot decrypt its stream: decrypt fails with KeyNotFound, and no node of
\* the leaf's path to the root is in the cover the stream was made for.
C1_RevocationExclusion ==
    (DecryptedWholeStream /\ id \in enc.T) =>
        /\ res.status = "KeyNotFound"
        /\ Path(id) \cap SeqToSet(enc.cover) = {}

\* C2 Round-trip: a leaf that was valid when encrypt was called decrypts the
\* stream to exactly the message that was encrypted.
C2_RoundTrip ==
    (DecryptedWholeStream /\ id \in enc.S) =>
        /\ res.status = "ok"
        /\ res.m = enc.m

\* C3 Cover correctness: the leaves below the nodes of S_cover are exactly
\* the leaves that are not revoked.
C3_CoverCorrect == CoveredLeaves(S_cover) = Leaves \ T

\* C4 Cover is an antichain: no node of S_cover is a proper ancestor of
\* another node of S_cover.
C4_CoverAntichain ==
    \A i, j \in 1..Len(S_cover) :
        S_cover[i] # S_cover[j] => ~AncestorOrSelf(S_cover[i], S_cover[j])

\* C5 No-revocation cover: while nothing is revoked, S_cover is exactly the
\* one-element sequence <<1>>, for every tree size.
C5_NoRevocationCover == T = {} => S_cover = <<1>>

\* C6 Key recovery is decided by cover membership: decrypt of a whole stream
\* recovers the content key of that stream exactly when a node of the
\* device's path to the root is in the cover the stream was made for, and
\* fails with KeyNotFound otherwise.
C6_KeyRecoveryByCover ==
    DecryptedWholeStream =>
        LET onCover == Path(id) \cap SeqToSet(enc.cover) # {}
        IN  /\ res.key_found <=> onCover
            /\ onCover => res.k = get_random_key(enc.r) /\ res.status = "ok"
            /\ ~onCover => res.status = "KeyNotFound"

\* a leaf below a cover node that is not the first of a cover of several
\* nodes has recovered the key
C6_Witness ==
    /\ DecryptedWholeStream
    /\ id \in Leaves
    /\ Len(enc.cover) >= 2
    /\ Len(res.att) >= 2
    /\ res.key_found
    /\ res.k = get_random_key(enc.r)

\* C7 No-op revoke: a revoke call whose id is not in S (already revoked, an
\* internal node, the root, or out of range) returns False and leaves S, T
\* and S_cover as they were.
C7_NoOpRevoke ==
    [][(op' = "revoke" /\ id' \notin S) =>
            /\ ret' = FALSE
            /\ S' = S
            /\ T' = T
            /\ S_cover' = S_cover]_vars

\* a leaf revoked earlier was given to revoke again, which returned False
C7_Witness == op = "revoke" /\ id \in T /\ ret = FALSE /\ nrev >= 1

\* no position that is a multiple of the key block size starts with the separator
NoSeparatorAtStride(c) ==
    \A j \in 0..(Len(c) \div ENCRYPTED_KEY_SIZE) :
        ~StreamStartsWith(Drop(c, j * ENCRYPTED_KEY_SIZE), TAG_SEPARATOR)

\* the length of the last, possibly truncated, key block admits a trial decryption
LastBlockDecryptable(c) == (Len(c) % ENCRYPTED_KEY_SIZE) % BLOCK_BYTES = 0

\* C8 (as the spec states it) Separator-not-found reporting: whenever no
\* stride position of the stream starts with the separator, decrypt fails
\* with 'Separator not found', whether or not a key was recovered; and
\* KeyNotFound is reported only when the separator was found.
C8_SeparatorNotFoundAlways ==
    op = "decrypt" =>
        /\ NoSeparatorAtStride(c_in) => res.status = "SeparatorNotFound"
        /\ res.status = "KeyNotFound" => ~NoSeparatorAtStride(c_in)

\* C8 (amended) decrypt tests the key before the separator: when no stride
\* position starts with the separator, it fails with 'Separator not found'
\* exactly when a content key was recovered during the scan; when none was
\* recovered it fails with KeyNotFound, separator or not (the empty stream
\* included), or with the cipher's own ValueError when the trial decryption
\* of a truncated last block fails.
C8_SeparatorReporting ==
    op = "decrypt" =>
        LET nosep == NoSeparatorAtStride(c_in)
        IN  /\ nosep => (res.status = "SeparatorNotFound" <=> res.key_found)
            /\ (nosep /\ ~res.key_found) =>
                    res.status = IF LastBlockDecryptable(c_in) THEN "KeyNotFound" ELSE "ValueError"
            /\ (~nosep /\ ~res.key_found) => res.status = "KeyNotFound"
            /\ c_in = <<>> => res.status = "KeyNotFound"

\* a stream cut right before its separator, given to a device that recovers the key
C8_Witness ==
    /\ op = "decrypt"
    /\ c_in # <<>>
    /\ NoSeparatorAtStride(c_in)
    /\ res.key_found
    /\ res.status = "SeparatorNotFound"

\* C9 Stream layout: the stream of an encrypt call is one 48-byte key block
\* per cover node, the i-th being marker||k under the key of the i-th node of
\* the ascending cover, then the separator at offset |cover| * 48, then
\* IV||ciphertext of the padded message under the same k.
C9_StreamLayout ==
    enc.called =>
        LET cov == enc.cover
            k == get_random_key(enc.r)
            sepAt == Len(cov) * ENCRYPTED_KEY_SIZE
            body == Drop(stream, sepAt + Len(TAG_SEPARATOR))
            content == AES_decrypt(k, Take(body, IV_SIZE), Drop(body, IV_SIZE))
        IN  /\ op = "encrypt" => cov = S_cover
            /\ cov = sorted(SeqToSet(cov))
            /\ Len(stream) = sepAt + Len(TAG_SEPARATOR) + IV_SIZE + Len(add_padding(enc.m))
            /\ \A i \in 1..Len(cov) :
                 LET blk == SubSeq(stream, (i - 1) * ENCRYPTED_KEY_SIZE + 1, i * ENCRYPTED_KEY_SIZE)
                     d == AES_decrypt(nodes[cov[i]], Take(blk, IV_SIZE), Drop(blk, IV_SIZE))
                 IN  ~d.err /\ d.p = TAG_VALID \o k
            /\ SubSeq(stream, sepAt + 1, sepAt + Len(TAG_SEPARATOR)) = Raw(TAG_SEPARATOR)
            /\ \A p \in 0..(sepAt - 1) : ~StreamStartsWith(Drop(stream, p), TAG_SEPARATOR)
            /\ ~content.err /\ content.p = add_padding(enc.m)

\* encrypt has just produced a stream of several key blocks for a message of
\* more than one block
C9_Witness ==
    /\ op = "encrypt"
    /\ Len(enc.cover) >= 3
    /\ Len(enc.m) > BLOCK_BYTES
    /\ Len(stream) = 3 * ENCRYPTED_KEY_SIZE + Len(TAG_SEPARATOR) + IV_SIZE + 2 * BLOCK_BYTES

\* C10 Cover is never stale: between operations S_cover is the result of the
\* cover computation for the current S and T, strictly ascending, with every
\* id in 1..last_leaf; and an encrypt call uses that cover.
C10_CoverNeverStale ==
    /\ S_cover = get_S_cover(S, T, n)
    /\ \A i \in 1..Len(S_cover) : S_cover[i] \in 1..last_leaf(n)
    /\ \A i, j \in 1..Len(S_cover) : i < j => S_cover[i] < S_cover[j]
    /\ op = "encrypt" => (enc.T = T /\ enc.S = S /\ enc.cover = get_S_cover(S, T, n))

\* a second revocation has just replaced a cover by a longer one, and an
\* earlier stream made for the old cover is still around
C10_Witness ==
    /\ op = "revoke"
    /\ ret = TRUE
    /\ nrev = 2
    /\ enc.called
    /\ enc.cover # S_cover
    /\ Len(S_cover) >= 2

\* C11 validSet/revokedSet partition: S and T are disjoint and together are
\* exactly the leaves; a revoke call returns True exactly when its id was in
\* S before the call, and then moves it from S to T; nothing else changes T,
\* so T is the set of ids for which revoke returned True and never shrinks.
C11_Partition ==
    /\ [](S \cap T = {} /\ S \cup T = Leaves /\ Cardinality(T) = nrev)
    /\ [][/\ op' = "revoke" => (ret' <=> id' \in S)
          /\ T' = IF op' = "revoke" /\ ret' THEN T \cup {id'} ELSE T
          /\ S' = IF op' = "revoke" /\ ret' THEN S \ {id'} ELSE S]_vars

\* two leaves were revoked, and a later call with an id that is no leaf returned False
C11_Witness ==
    /\ op = "revoke"
    /\ ret = FALSE
    /\ id \notin Leaves
    /\ Cardinality(T) = 2
    /\ S # {}

\* ------------------------------------------- the helpers, call by call
\* the state of the engine, which the helper calls below leave alone
engine == <<n, nodes, S, T, S_cover, stream, enc, op, id, ret, cut, res, nrev>>

\* the program is sequential: a call starts when no loop of an earlier call is running
Idle == ~(call.f = "get_path_to_root" /\ call.pc = "loop")

\* BinaryTree.__init__ for a tree of size leafCount, and get_leaves on it
tree_init(leafCount) ==
    /\ Idle
    /\ call' = [f |-> "BinaryTree",
                n |-> leafCount,
                t |-> tree_t(leafCount),
                depth |-> depth(leafCount),
                first_leaf |-> first_leaf(leafCount),
                last_leaf |-> last_leaf(leafCount),
                nodes |-> [i \in 1..last_leaf(leafCount) |-> get_random_key(i)],
                leaves |-> get_leaves(leafCount)]
    /\ UNCHANGED engine

\* BinaryTree.get_path_to_root, entry: path = [node_id], id = node_id
walk_start(node_id) ==
    /\ Idle
    /\ call' = [f |-> "get_path_to_root", node_id |-> node_id,
                path |-> <<node_id>>, id |-> node_id, pc |-> "loop"]
    /\ UNCHANGED engine

\* BinaryTree.get_path_to_root, one test of 'while path[-1] != 1' and, when
\* it holds, one run of the loop body; the walk is followed for MaxWalk nodes
walk_step ==
    /\ call.f = "get_path_to_root"
    /\ call.pc = "loop"
    /\ IF call.path[Len(call.path)] # 1
       THEN /\ Len(call.path) < MaxWalk
            /\ call' = [call EXCEPT !.id = get_parent(call.id),
                                    !.path = Append(call.path, get_parent(call.id))]
       ELSE call' = [call EXCEPT !.pc = "done"]
    /\ UNCHANGED engine

\* add_padding(m), then remove_padding of its result
padding_call(m) ==
    /\ Idle
    /\ call' = [f |-> "padding", m |-> m, padded |-> add_padding(m),
                unpadded |-> remove_padding(add_padding(m))]
    /\ UNCHANGED engine

\* tree sizes, node ids (0 and -1 are below every tree) and messages of the helper calls
TreeSizes == 1..MaxTreeN
WalkIds == (0 - 1)..last_leaf(MaxTreeN)
PadFills == {0, 15, 255}
PadMsgs == {[j \in 1..l |-> b] : l \in 0..MaxPadLen, b \in PadFills}

InitFn == Init /\ n = 1

NextFn ==
    \/ \E leafCount \in TreeSizes : tree_init(leafCount)
    \/ \E node_id \in WalkIds : walk_start(node_id)
    \/ walk_step
    \/ \E m \in PadMsgs : padding_call(m)

SpecFn == InitFn /\ [][NextFn]_vars

\* the loop of get_path_to_root keeps running while it can
SpecFnFair == SpecFn /\ WF_vars(walk_step)

Walking == call.f = "get_path_to_root"
WalkDone == Walking /\ call.pc = "done"

\* C12 pathToRoot terminates and is well-formed: for a node id >= 1 the walk
\* ends; its path starts with the id, every next element is the integer half
\* of the one before, and 1 occurs once, as the last element; the id falls
\* with every step, and the path of a leaf of a tree has depth = t + 1
\* elements, all in 1..last_leaf.
C12_PathToRoot ==
    /\ []((Walking /\ call.node_id >= 1) =>
            /\ call.path[1] = call.node_id
            /\ \A j \in 2..Len(call.path) : call.path[j] = call.path[j - 1] \div 2
            /\ \A j \in 1..(Len(call.path) - 1) : call.path[j] # 1
            /\ Len(call.path) < MaxWalk
            /\ call.pc = "done" =>
                 /\ call.path[Len(call.path)] = 1
                 /\ call.path = get_path_to_root(call.node_id)
                 /\ \A leafCount \in TreeSizes :
                      call.node_id \in SeqToSet(get_leaves(leafCount)) =>
                          /\ Len(call.path) = tree_t(leafCount) + 1
                          /\ \A j \in 1..Len(call.path) :
                               call.path[j] \in 1..last_leaf(leafCount))
    /\ [][(Walking /\ call.node_id >= 1 /\ call.pc = "loop" /\ call'.path # call.path) =>
            (call'.id >= 1 /\ call'.id < call.id)]_vars
    /\ ((Walking /\ call.node_id >= 1) ~> WalkDone)

\* the walk from a leaf of the largest tree has ended at the root
C12_Witness ==
    /\ WalkDone
    /\ call.node_id \in SeqToSet(get_leaves(MaxTreeN))
    /\ Len(call.path) = tree_t(MaxTreeN) + 1
    /\ Len(call.path) >= 4

\* C13 Padding round-trip: add_padding appends p bytes of value p - 1 with p
\* in 1..16, up to the smallest multiple of 16 above len(m), and
\* remove_padding gives m back.
C13_PaddingRoundTrip ==
    call.f = "padding" =>
        LET l == Len(call.m)
            p == Len(call.padded) - l
        IN  /\ p \in 1..BLOCK_BYTES
            /\ Take(call.padded, l) = call.m
            /\ \A j \in 1..p : call.padded[l + j] = p - 1
            /\ Len(call.padded) % BLOCK_BYTES = 0
            /\ Len(call.padded) > l
            /\ Len(call.padded) - BLOCK_BYTES <= l
            /\ call.unpadded = [err |-> "none", m |-> call.m]

\* a message of two whole blocks, whose own bytes look like padding, got a full block of padding
C13_Witness ==
    /\ call.f = "padding"
    /\ Len(call.m) = 2 * BLOCK_BYTES
    /\ call.m[1] = 15
    /\ Len(call.padded) = 3 * BLOCK_BYTES
    /\ call.unpadded.m = call.m

\* the j-th 48-byte stride of the bytes given to decrypt
BlockAt(j) == Take(Drop(c_in, (j - 1) * ENCRYPTED_KEY_SIZE), ENCRYPTED_KEY_SIZE)
\* the plaintext of a block under a key starts with the validity marker
Unlocks(key, blk) ==
    LET d == AES_decrypt(key, Take(blk, IV_SIZE), Drop(blk, IV_SIZE))
    IN  ~d.err /\ StartsWith(d.p, TAG_VALID)
\* the keys of the device of the latest decrypt call, leaf first, root last
KnownKeys == get_known_keys(nodes, id)
\* the position in KnownKeys of the first key that unlocks a block, 0 if none does
FirstKey(blk) ==
    IF \E j \in 1..Len(KnownKeys) : Unlocks(KnownKeys[j], blk)
    THEN CHOOSE j \in 1..Len(KnownKeys) :
            /\ Unlocks(KnownKeys[j], blk)
            /\ \A i \in 1..(j - 1) : ~Unlocks(KnownKeys[i], blk)
    ELSE 0
\* the trial decryption of a truncated block raised the cipher's ValueError
ScanRaised == res.status = "ValueError" /\ ~res.key_found

\* C14 Two-phase decrypt scan: blocks are trial-decrypted one after the
\* other from offset 0, up to and including the first block that some known
\* key unlocks; in a block the keys are tried leaf to root and the first
\* match ends the trials; the content key is the one of that block, and the
\* blocks after it are passed over without a trial until the separator.
C14_TwoPhaseScan ==
    (op = "decrypt" /\ ~ScanRaised) =>
        LET na == Len(res.att)
        IN  /\ \A i \in 1..na : res.att[i][1] = (i - 1) * ENCRYPTED_KEY_SIZE
            /\ \A i \in 1..na :
                 (i < na \/ ~res.key_found) =>
                     /\ FirstKey(BlockAt(i)) = 0
                     /\ res.att[i][2] = Len(KnownKeys)
            /\ res.key_found =>
                 /\ na >= 1
                 /\ res.att[na][2] = FirstKey(BlockAt(na))
                 /\ res.att[na][2] # 0
                 /\ res.k = Drop(AES_decrypt(KnownKeys[res.att[na][2]],
                                             Take(BlockAt(na), IV_SIZE),
                                             Drop(BlockAt(na), IV_SIZE)).p,
                                 Len(TAG_VALID))
            /\ res.separator_found => na * ENCRYPTED_KEY_SIZE <= res.off

\* the key was found in the second block, with the second key of the path,
\* and two more blocks were passed over before the separator
C14_Witness ==
    /\ DecryptedWholeStream
    /\ res.status = "ok"
    /\ Len(res.att) = 2
    /\ res.att[2][2] = 2
    /\ res.off = 4 * ENCRYPTED_KEY_SIZE

\* the stride offsets of the bytes given to decrypt that start with the separator
SeparatorStrides ==
    {j * ENCRYPTED_KEY_SIZE : j \in {i \in 0..(Len(c_in) \div ENCRYPTED_KEY_SIZE) :
        StreamStartsWith(Drop(c_in, i * ENCRYPTED_KEY_SIZE), TAG_SEPARATOR)}}

\* C15 Separator boundary: the scan stops at the smallest multiple of 48 at
\* which the rest of the input starts with the separator, no block at or
\* after that offset is trial-decrypted, and the bytes after that separator
\* are decrypted as IV||ciphertext of the content; for the stream of an
\* encrypt call that offset is |cover| * 48.
C15_SeparatorBoundary ==
    op = "decrypt" =>
        /\ res.off % ENCRYPTED_KEY_SIZE = 0
        /\ res.separator_found <=> SeparatorStrides # {}
        /\ res.separator_found =>
             /\ res.off \in SeparatorStrides
             /\ \A o \in SeparatorStrides : res.off <= o
             /\ \A i \in 1..Len(res.att) : res.att[i][1] < res.off
        /\ res.status = "ok" =>
             LET body == Drop(c_in, res.off + Len(TAG_SEPARATOR))
                 d == AES_decrypt(res.k, Take(body, IV_SIZE), Drop(body, IV_SIZE))
             IN  ~d.err /\ res.m = remove_padding(d.p).m
        /\ (enc.called /\ cut = Len(stream)) =>
             (res.separator_found /\ res.off = Len(enc.cover) * ENCRYPTED_KEY_SIZE)

\* a device without a key of the cover tried all three blocks and stopped at the separator
C15_Witness ==
    /\ DecryptedWholeStream
    /\ res.status = "KeyNotFound"
    /\ res.separator_found
    /\ Len(res.att) = 3
    /\ res.off = 3 * ENCRYPTED_KEY_SIZE

\* C16 Frame conditions: an encrypt or decrypt call, successful or not,
\* leaves S, T, S_cover and the key table as they were; no call changes the
\* key table, which holds one key for each node id in 1..last_leaf.
C16_Frame ==
    /\ [](DOMAIN nodes = 1..last_leaf(n))
    /\ [][/\ nodes' = nodes
          /\ op' \in {"encrypt", "decrypt"} =>
                (S' = S /\ T' = T /\ S_cover' = S_cover)]_vars

\* a decrypt call failed for want of a separator on an engine with a revoked leaf
C16_Witness ==
    /\ op = "decrypt"
    /\ res.status = "SeparatorNotFound"
    /\ T # {}
    /\ S # {}

C18_RootLeavesCover == T # {} => 1 \notin SeqToSet(S_cover)

DecRunning == call.f = "decrypt"
DecDone == DecRunning /\ call.pc = "done"

\* c, the input left
dec_c == Drop(Take(stream, call.p), call.off)

\* AACS.decrypt, entry: keep_searching = True, separator_found = False
dec_start(node_id, p) ==
    /\ call = NoCall
    /\ call' = [f |-> "decrypt", node_id |-> node_id, p |-> p, off |-> 0,
                keep_searching |-> TRUE, separator_found |-> FALSE, k |-> <<>>,
                path |-> <<>>, pc |-> "while", status |-> "none", m |-> <<>>]
    /\ UNCHANGED engine

\* mutant of dec_while: a block is not dropped once the key is known
dec_while_no_advance ==
    /\ DecRunning
    /\ call.pc = "while"
    /\ IF dec_c = <<>>
       THEN call' = [call EXCEPT !.pc = "after"]
       ELSE IF StreamStartsWith(dec_c, TAG_SEPARATOR)
       THEN call' = [call EXCEPT !.separator_found = TRUE, !.pc = "after"]
       ELSE IF call.keep_searching
       THEN call' = [call EXCEPT !.pc = "walk", !.path = <<call.node_id>>]
       ELSE call' = [call EXCEPT !.off = call.off]
    /\ UNCHANGED engine

\* AACS.decrypt, one test of the while condition and the body up to the
\* key trial: stop at the separator, enter __get_known_keys, or drop a block
dec_while ==
    /\ DecRunning
    /\ call.pc = "while"
    /\ IF dec_c = <<>>
       THEN call' = [call EXCEPT !.pc = "after"]
       ELSE IF StreamStartsWith(dec_c, TAG_SEPARATOR)
       THEN call' = [call EXCEPT !.separator_found = TRUE, !.pc = "after"]
       ELSE IF call.keep_searching
       THEN call' = [call EXCEPT !.pc = "walk", !.path = <<call.node_id>>]
       ELSE call' = [call EXCEPT !.off = call.off + ENCRYPTED_KEY_SIZE]
    /\ UNCHANGED engine

\* get_path_to_root inside __get_known_keys: one test of the loop condition
\* and one run of its body; the walk is followed for MaxWalk nodes
dec_walk ==
    /\ DecRunning
    /\ call.pc = "walk"
    /\ IF call.path[Len(call.path)] # 1
       THEN /\ Len(call.path) < MaxWalk
            /\ call' = [call EXCEPT
                          !.path = Append(call.path, get_parent(call.path[Len(call.path)]))]
       ELSE call' = [call EXCEPT !.pc = "trial"]
    /\ UNCHANGED engine

\* AACS.decrypt, the for loop over the known keys, then c = c[48:]
dec_trial ==
    /\ DecRunning
    /\ call.pc = "trial"
    /\ \E known \in {[j \in 1..Len(call.path) |-> nodes[call.path[j]]]},
          c_u \in {Take(dec_c, ENCRYPTED_KEY_SIZE)} :
          \E t \in {try_keys(known, c_u, 1)} :
             IF t.err
             THEN call' = [call EXCEPT !.status = "ValueError", !.pc = "done"]
             ELSE call' = [call EXCEPT !.keep_searching = ~t.found,
                                       !.k = IF t.found THEN t.k ELSE call.k,
                                       !.off = call.off + ENCRYPTED_KEY_SIZE,
                                       !.pc = "while"]
    /\ UNCHANGED engine

\* AACS.decrypt, after the loop: the two raises, then the message
dec_after ==
    /\ DecRunning
    /\ call.pc = "after"
    /\ \E body \in {Drop(dec_c, Len(TAG_SEPARATOR))} :
          \E d \in {AES_decrypt(call.k, Take(body, 16), Drop(body, 16))} :
             LET u == remove_padding(d.p)
                 out(status, m) == [call EXCEPT !.status = status, !.m = m, !.pc = "done"]
             IN  call' = IF call.keep_searching THEN out("KeyNotFound", <<>>)
                         ELSE IF ~call.separator_found THEN out("SeparatorNotFound", <<>>)
                         ELSE IF d.err THEN out("ValueError", <<>>)
                         ELSE IF u.err # "none" THEN out(u.err, <<>>)
                         ELSE out("ok", u.m)
    /\ UNCHANGED engine

\* the call has returned or raised: the caller goes on
dec_return ==
    /\ DecDone
    /\ call' = NoCall
    /\ UNCHANGED engine

\* the devices of the tree, and two ids below it
DecIds == DecryptIds \cup {0, 0 - 1}

\* the engine after construction, some revocations and an encrypt call
InitScan ==
    /\ n \in Sizes
    /\ nodes = [i \in 1..last_leaf(n) |-> get_random_key(i)]
    /\ T \in {revoked \in SUBSET SeqToSet(get_leaves(n)) : Cardinality(revoked) <= MaxRevoke}
    /\ S = SeqToSet(get_leaves(n)) \ T
    /\ S_cover = get_S_cover(S, T, n)
    /\ nrev = Cardinality(T)
    /\ \E m \in Msgs, r \in Seeds :
          /\ stream = encrypt_bytes(nodes, S_cover, m, r)
          /\ enc = [called |-> TRUE, m |-> m, r |-> r, cover |-> S_cover, S |-> S, T |-> T]
    /\ op = "encrypt"
    /\ id = 0
    /\ ret = FALSE
    /\ cut = 0
    /\ res = NoRes
    /\ call = NoCall

NextScan ==
    \/ \E node_id \in DecIds, p \in Cuts : dec_start(node_id, p)
    \/ dec_while
    \/ dec_walk
    \/ dec_trial
    \/ dec_after
    \/ dec_return

SpecScan == InitScan /\ [][NextScan]_vars

\* a running decrypt call keeps running
SpecScanFair == SpecScan /\ WF_vars(dec_while \/ dec_walk \/ dec_trial \/ dec_after)

\* C20 Decrypt always terminates: a decrypt call for a node id >= 1 of the
\* tree ends, with a message or an error; an iteration of the scan that does
\* not stop at the separator leaves the input shorter by one 48-byte stride
\* (by what is left when less is left); the walk to the root ends at node 1
\* within the depth of the tree; for a node id < 1 the walk stays below 1
\* and the call never leaves it.
C20_DecryptTerminates ==
    /\ (DecRunning /\ call.node_id >= 1) ~> DecDone
    /\ [](DecDone =>
            /\ call.status \in {"ok", "KeyNotFound", "SeparatorNotFound",
                                "ValueError", "IndexError"}
            /\ call.node_id >= 1 =>
                 LET r == decrypt_result(nodes, call.node_id, Take(stream, call.p))
                 IN  call.status = r.status /\ call.m = r.m)
    /\ [][(DecRunning /\ call.pc \in {"while", "trial"} /\ call'.pc = "while") =>
            /\ dec_c # <<>>
            /\ call'.off = call.off + ENCRYPTED_KEY_SIZE
            /\ Len(dec_c') = Max2(Len(dec_c) - ENCRYPTED_KEY_SIZE, 0)
            /\ Len(dec_c') < Len(dec_c)]_vars
    /\ [][(DecRunning /\ call.pc = "walk" /\ call'.pc = "trial") =>
            /\ call.path[Len(call.path)] = 1
            /\ call.path[1] = call.node_id
            /\ Len(call.path) <= depth(n)]_vars
    /\ []((DecRunning /\ call.node_id < 1 /\ call.pc = "walk") =>
            call.path[Len(call.path)] < 1)
    /\ [][(DecRunning /\ call.node_id < 1 /\ call.pc = "walk") =>
            call'.pc = "walk"]_vars

\* a decrypt call went over two key blocks and returned the message
C20_Witness ==
    /\ DecDone
    /\ call.node_id >= 1
    /\ call.status = "ok"
    /\ call.off >= 2 * ENCRYPTED_KEY_SIZE
    /\ call.m = enc.m

\* a decrypt call for a node id below the tree is in the walk with MaxWalk nodes
C20_WitnessBelow ==
    /\ DecRunning
    /\ call.node_id < 1
    /\ call.pc = "walk"
    /\ Len(call.path) = MaxWalk

====
